---- MODULE Spec2Model ----
(***************************************************************************)
(* Loan eligibility predictor: the two single-page form applications       *)
(* app.py (variant A, one pipeline artifact) and myapp.py (variant B, a    *)
(* model and a separate preprocessor).                                     *)
(*                                                                         *)
(* One process serves page runs one after the other.  Every run executes   *)
(* the script top to bottom: load the artifact(s) through the resource     *)
(* cache, render the form, and - when the run was started by the form's    *)
(* submit button and the artifacts are present - assemble the row, call    *)
(* the artifact, and render the result inside one try/except.              *)
(*                                                                         *)
(* Probabilities are integers in units of 1/100000 (80000 is 0.8).         *)
(***************************************************************************)
EXTENDS Integers, Sequences, FiniteSets, TLC

VARIABLES
    variant,          \* "A" (app.py) or "B" (myapp.py); fixed for the process
    files,            \* the artifact files on local storage: name -> status
    cache,            \* the resource cache of the loader: filled, value
    loadAttempts,     \* executions of the loader's body (reads of the files)
    loadReports,      \* st.error calls made by the loader's body
    loadTimeFiles,    \* the files as the loader's body found them (<<>> before)
    pc,               \* position of the current script run
    submit_button,    \* value of st.form_submit_button in the current run
    form,             \* the eight widget values (age, ..., delinquencies)
    pipeline,         \* app.py global (None in variant B)
    model,            \* myapp.py global (None in variant A)
    preprocessor,     \* myapp.py global (None in variant A)
    input_data,       \* the assembled one-row frame
    processed_data,   \* myapp.py: preprocessor.transform(input_data)
    prediction,       \* predict(...)[0]
    prediction_proba, \* predict_proba(...)[0]
    confidence_score, \* line 72 / line 130
    calls,            \* the artifact calls of this run: <<method, argument>>
    display,          \* the elements rendered by this run, in order
    failures          \* failed submissions so far (saturates at MaxFailures)

vars == <<variant, files, cache, loadAttempts, loadReports, loadTimeFiles, pc, submit_button,
          form, pipeline, model, preprocessor, input_data,
          processed_data, prediction, prediction_proba, confidence_score,
          calls, display, failures>>

locals == <<input_data, processed_data, prediction, prediction_proba,
            confidence_score, calls>>

globals == <<pipeline, model, preprocessor>>

None == "None"

(***************************************************************************)
(* Bounds of the model.                                                    *)
(***************************************************************************)
MaxLoads == 2

MaxFailures == 2

(***************************************************************************)
(* The input form: src/app.py 36-53, src/myapp.py 43-105.                  *)
(***************************************************************************)
AgeMin == 18
AgeMax == 100
AgeDefault == 30
IncomeMin == 0
IncomeMax == 100000
IncomeDefault == 5000
LoanMin == 1000
LoanMax == 50000
LoanDefault == 10000
CreditMin == 300
CreditMax == 850
CreditDefault == 700
DelinqMin == 0
DelinqMax == 20
DelinqDefault == 0

EmploymentOptions == <<"Employed", "Self-employed", "Unemployed">>

LoanTermOptions == <<12, 36, 60>>

LoanPurposeOptions ==
    <<"Debt Consolidation", "Home Improvement", "Business", "Education", "Other">>

Range(seq) == {seq[i] : i \in 1..Len(seq)}

\* Faulty variant: the range is not enforced.
number_input_unchecked(min_value, max_value, cur, typed) == typed

\* st.number_input(min_value, max_value): a typed value outside the range is
\* not committed, the widget keeps the value it had.
number_input(min_value, max_value, cur, typed) ==
    IF min_value <= typed /\ typed <= max_value THEN typed ELSE cur

\* st.slider(min_value, max_value): the handle stops at the ends of the track.
slider(min_value, max_value, cur, dragged) ==
    IF dragged < min_value THEN min_value
    ELSE IF dragged > max_value THEN max_value
    ELSE dragged

\* st.selectbox(options): only a listed option can be picked.
selectbox(options, cur, picked) ==
    IF picked \in Range(options) THEN picked ELSE cur

Fields == {"age", "stated_monthly_income", "loan_amount", "employment_status",
           "credit_score", "loan_term", "loan_purpose", "delinquencies"}

\* The widgets' initial values: value=..., and the first option of a selectbox.
FormDefaults ==
    [age                   |-> AgeDefault,
     stated_monthly_income |-> IncomeDefault,
     loan_amount           |-> LoanDefault,
     employment_status     |-> EmploymentOptions[1],
     credit_score          |-> CreditDefault,
     loan_term             |-> LoanTermOptions[1],
     loan_purpose          |-> LoanPurposeOptions[1],
     delinquencies         |-> DelinqDefault]

\* The form with the user's edits `u` applied to the session's values `cur`.
loan_eligibility_form(cur, u) ==
    [age                   |-> number_input(AgeMin, AgeMax, cur.age, u.age),
     stated_monthly_income |-> number_input(IncomeMin, IncomeMax,
                                   cur.stated_monthly_income, u.stated_monthly_income),
     loan_amount           |-> number_input(LoanMin, LoanMax, cur.loan_amount, u.loan_amount),
     employment_status     |-> selectbox(EmploymentOptions, cur.employment_status,
                                   u.employment_status),
     credit_score          |-> slider(CreditMin, CreditMax, cur.credit_score, u.credit_score),
     loan_term             |-> selectbox(LoanTermOptions, cur.loan_term, u.loan_term),
     loan_purpose          |-> selectbox(LoanPurposeOptions, cur.loan_purpose, u.loan_purpose),
     delinquencies         |-> number_input(DelinqMin, DelinqMax, cur.delinquencies,
                                   u.delinquencies)]

\* What a user may try to enter: the defaults, every field at its lower end,
\* every field at its upper end, every number just below and just above its
\* range with options that are not listed, and the records of the boundary
\* and end-to-end scenarios.
UserEdits ==
    { FormDefaults,
      [age |-> 18, stated_monthly_income |-> 0, loan_amount |-> 1000,
       employment_status |-> "Self-employed", credit_score |-> 300, loan_term |-> 36,
       loan_purpose |-> "Home Improvement", delinquencies |-> 0],
      [age |-> 100, stated_monthly_income |-> 100000, loan_amount |-> 50000,
       employment_status |-> "Unemployed", credit_score |-> 850, loan_term |-> 60,
       loan_purpose |-> "Other", delinquencies |-> 20],
      [age |-> 17, stated_monthly_income |-> -1, loan_amount |-> 999,
       employment_status |-> "Retired", credit_score |-> 299, loan_term |-> 24,
       loan_purpose |-> "Business", delinquencies |-> -1],
      [age |-> 101, stated_monthly_income |-> 100001, loan_amount |-> 50001,
       employment_status |-> "Student", credit_score |-> 851, loan_term |-> 72,
       loan_purpose |-> "Education", delinquencies |-> 21],
      [age |-> 18, stated_monthly_income |-> 5000, loan_amount |-> 50000,
       employment_status |-> "Employed", credit_score |-> 300, loan_term |-> 12,
       loan_purpose |-> "Debt Consolidation", delinquencies |-> 20],
      [age |-> 30, stated_monthly_income |-> 5000, loan_amount |-> 10000,
       employment_status |-> "Employed", credit_score |-> 700, loan_term |-> 36,
       loan_purpose |-> "Debt Consolidation", delinquencies |-> 0] }

(***************************************************************************)
(* The artifact files and the loaders: src/app.py 20-33,                   *)
(* src/myapp.py 22-40.                                                     *)
(***************************************************************************)
PipelineFile == "model_pipeline_Nb.pkl"
ModelFile == "model.pkl"
PreprocessorFile == "preprocessor.pkl"

FileNames(v) == IF v = "A" THEN {PipelineFile} ELSE {ModelFile, PreprocessorFile}

\* A file is there and loads ("ok"), is not there ("missing": open raises
\* FileNotFoundError) or does not deserialize ("corrupt": pickle.load raises).
FileStatus == {"ok", "missing", "corrupt"}

\* The object pickle.load returns for a file that loads.
Unpickled(name) ==
    CASE name = PipelineFile     -> "PipelineObject"
      [] name = ModelFile        -> "ModelObject"
      [] name = PreprocessorFile -> "PreprocessorObject"

\* The st.error a failed load makes: line 27 / 33 for FileNotFoundError,
\* line 30 / 36 for any other Exception.
LoadErrorFor(status) == IF status = "missing" THEN "not found" ELSE "error loading"

\* Faulty variant: only FileNotFoundError is handled.
load_model_pipeline_corrupt_raises(fs) ==
    IF fs[PipelineFile] = "ok"
    THEN [raised |-> FALSE, value |-> <<Unpickled(PipelineFile)>>, report |-> "none"]
    ELSE IF fs[PipelineFile] = "missing"
    THEN [raised |-> FALSE, value |-> <<None>>, report |-> "not found"]
    ELSE [raised |-> TRUE, value |-> <<>>, report |-> "none"]

\* app.py load_model_pipeline(): value is <<pipeline>>.
load_model_pipeline(fs) ==
    IF fs[PipelineFile] = "ok"
    THEN [raised |-> FALSE, value |-> <<Unpickled(PipelineFile)>>, report |-> "none"]
    ELSE [raised |-> FALSE, value |-> <<None>>,
          report |-> LoadErrorFor(fs[PipelineFile])]

\* Faulty variant: a model that loaded is returned without its preprocessor.
load_model_and_preprocessor_keeps_model(fs) ==
    IF fs[ModelFile] # "ok"
    THEN [raised |-> FALSE, value |-> <<None, None>>, report |-> LoadErrorFor(fs[ModelFile])]
    ELSE IF fs[PreprocessorFile] # "ok"
    THEN [raised |-> FALSE, value |-> <<Unpickled(ModelFile), None>>,
          report |-> LoadErrorFor(fs[PreprocessorFile])]
    ELSE [raised |-> FALSE, value |-> <<Unpickled(ModelFile), Unpickled(PreprocessorFile)>>,
          report |-> "none"]

\* myapp.py load_model_and_preprocessor(): value is <<model, preprocessor>>.
\* The model file is read first; a failure at either file leaves the try block.
load_model_and_preprocessor(fs) ==
    IF fs[ModelFile] # "ok"
    THEN [raised |-> FALSE, value |-> <<None, None>>, report |-> LoadErrorFor(fs[ModelFile])]
    ELSE IF fs[PreprocessorFile] # "ok"
    THEN [raised |-> FALSE, value |-> <<None, None>>,
          report |-> LoadErrorFor(fs[PreprocessorFile])]
    ELSE [raised |-> FALSE, value |-> <<Unpickled(ModelFile), Unpickled(PreprocessorFile)>>,
          report |-> "none"]

EmptyCache == [filled |-> FALSE, value |-> <<>>]

\* Faulty variant: no caching.
CacheNeverHits(c) == FALSE

\* @st.cache_resource: a call finds the value of an earlier call in the cache.
CacheHit(c) == c.filled

\* Python truth value of a loaded artifact or None.
Truthy(x) == x # None

(***************************************************************************)
(* Prediction logic: src/app.py 56-97, src/myapp.py 108-156.               *)
(***************************************************************************)
\* Line 56: if submit_button and pipeline
guard_app(sb, pl) == sb /\ Truthy(pl)

\* Line 108: if submit_button and model and preprocessor
guard_myapp(sb, m, pre) == sb /\ Truthy(m) /\ Truthy(pre)

\* Faulty variant: Age and LoanAmount are clamped to narrower ranges.
InputData_clamped(f) ==
    << <<"Age", IF f.age < AgeDefault THEN AgeDefault ELSE f.age>>,
       <<"StatedMonthlyIncome", f.stated_monthly_income>>,
       <<"LoanAmount", IF f.loan_amount > LoanDefault THEN LoanDefault ELSE f.loan_amount>>,
       <<"EmploymentStatus", f.employment_status>>,
       <<"CreditScore", f.credit_score>>,
       <<"LoanTerm", f.loan_term>>,
       <<"LoanPurpose", f.loan_purpose>>,
       <<"Delinquencies", f.delinquencies>> >>

\* Lines 58-67 / 111-120: the one-row frame, columns in the order written.
InputData(f) ==
    << <<"Age", f.age>>,
       <<"StatedMonthlyIncome", f.stated_monthly_income>>,
       <<"LoanAmount", f.loan_amount>>,
       <<"EmploymentStatus", f.employment_status>>,
       <<"CreditScore", f.credit_score>>,
       <<"LoanTerm", f.loan_term>>,
       <<"LoanPurpose", f.loan_purpose>>,
       <<"Delinquencies", f.delinquencies>> >>

\* myapp.py 123: what preprocessor.transform returns for a frame; the
\* transform is opaque, its result is not the frame.
Transformed(frame) == <<"transformed", frame>>

\* What predict and predict_proba are called on.
InferenceInputApp(frame, processed) == frame

InferenceInputMyapp(frame, processed) == processed

\* Values an artifact's predict_proba row may hold: a float, or a value that
\* has no '.2%' format (a row of a nested array, a string).
Float(x) == <<"float", x>>

Unformattable == <<"ndarray", 0>>

IsFloat(x) == x[1] = "float"

ProbMass == {0, 20000, 33333, 66667, 80000, 100000}

\* predict(...)[0]: a class label; the artifact is opaque, 2 stands for any
\* label other than 0 and 1.
PredictReturns == {0, 1, 2}

\* predict_proba(...)[0]: two probabilities that sum to one, a row that is
\* not of floats, a row of one class only.
ProbaReturns ==
    {<<Float(a), Float(100000 - a)>> : a \in ProbMass}
        \cup {<<Unformattable, Unformattable>>, <<Float(100000)>>}

\* Line 72 / 130: prediction_proba[1] if prediction == 1 else prediction_proba[0]
\* (Python indexes from 0, a TLA+ sequence from 1).
ConfidenceIndex(pred) == IF pred = 1 THEN 2 ELSE 1

\* Index of the larger of two probabilities.
MaxOf(proba) ==
    IF Len(proba) = 2 /\ IsFloat(proba[1]) /\ IsFloat(proba[2]) /\ proba[2][2] > proba[1][2]
    THEN 2 ELSE 1

\* Faulty variant: the largest probability, whatever the label.
ConfidenceScoreApp_max(pred, proba) ==
    IF ConfidenceIndex(pred) > Len(proba)
    THEN [raised |-> TRUE, value |-> <<>>]
    ELSE [raised |-> FALSE, value |-> <<proba[MaxOf(proba)]>>]

ConfidenceScoreApp(pred, proba) ==
    IF ConfidenceIndex(pred) > Len(proba)
    THEN [raised |-> TRUE, value |-> <<>>]
    ELSE [raised |-> FALSE, value |-> <<proba[ConfidenceIndex(pred)]>>]

ConfidenceScoreMyapp(pred, proba) ==
    IF ConfidenceIndex(pred) > Len(proba)
    THEN [raised |-> TRUE, value |-> <<>>]
    ELSE [raised |-> FALSE, value |-> <<proba[ConfidenceIndex(pred)]>>]

\* Faulty variant: app.py with myapp.py's encoding.
verdict_app_inverted(pred) == IF pred = 0 THEN "eligible" ELSE "high credit risk"

\* Lines 76-83 of app.py: label 1 is the eligible one.
verdict_app(pred) == IF pred = 1 THEN "eligible" ELSE "high credit risk"

\* Faulty variant: myapp.py with app.py's encoding.
verdict_myapp_as_app(pred) == IF pred = 1 THEN "eligible" ELSE "high credit risk"

\* Lines 135-142 of myapp.py: label 0 is the eligible one.
verdict_myapp(pred) == IF pred = 0 THEN "eligible" ELSE "high credit risk"

\* f"{confidence_score:.2%}": times 100, two decimals, rounded to nearest;
\* <<80, 0, 0>> stands for "80.00%".  No value of ProbMass lies on a tie.
FormatPercent(x) ==
    LET q == (x[2] + 5) \div 10
    IN  <<q \div 100, (q \div 10) % 10, q % 10>>

\* Lines 87-92 / 146-151: the summary table's values; the two amounts are
\* written as dollar strings.
SummaryValues(f) ==
    <<f.age, <<"$", f.stated_monthly_income>>, <<"$", f.loan_amount>>,
      f.employment_status, f.credit_score, f.loan_term, f.loan_purpose,
      f.delinquencies>>

(***************************************************************************)
(* The state after the process has started and before the first page run.  *)
(***************************************************************************)
Init ==
    /\ variant \in {"A", "B"}
    /\ files \in [FileNames(variant) -> FileStatus]
    /\ cache = EmptyCache
    /\ loadAttempts = 0
    /\ loadReports = 0
    /\ loadTimeFiles = [n \in FileNames(variant) |-> "unread"]
    /\ pc = "idle"
    /\ submit_button = FALSE
    /\ form = FormDefaults
    /\ pipeline = None
    /\ model = None
    /\ preprocessor = None
    /\ input_data = <<>>
    /\ processed_data = <<>>
    /\ prediction = <<>>
    /\ prediction_proba = <<>>
    /\ confidence_score = <<>>
    /\ calls = <<>>
    /\ display = <<>>
    /\ failures = 0

Shown(kind) == \E i \in 1..Len(display) : display[i][1] = kind

BetweenRuns == pc \in {"idle", "done", "crashed"}

\* A script run starts in a fresh namespace with an empty page.
BeginRun ==
    /\ pc' = "load"
    /\ pipeline' = None
    /\ model' = None
    /\ preprocessor' = None
    /\ input_data' = <<>>
    /\ processed_data' = <<>>
    /\ prediction' = <<>>
    /\ prediction_proba' = <<>>
    /\ confidence_score' = <<>>
    /\ calls' = <<>>
    /\ display' = <<>>
    /\ UNCHANGED <<variant, files, cache, loadAttempts, loadReports, loadTimeFiles,
                   failures>>

\* The page is opened or rerun without the submit button.
OpenPage ==
    /\ BetweenRuns
    /\ submit_button' = FALSE
    /\ form' = form
    /\ BeginRun

\* The user edits the form that is on the page and presses Predict.
SubmitForm ==
    /\ pc = "done"
    /\ Shown("form")
    /\ \E u \in UserEdits : form' = loan_eligibility_form(form, u)
    /\ submit_button' = TRUE
    /\ BeginRun

\* The environment: an artifact file appears, disappears or is replaced.
\* The files are read by the loader only, so a change between two runs
\* stands for a change at any time.
FilesChange ==
    /\ BetweenRuns
    /\ \E n \in FileNames(variant), st \in FileStatus :
          /\ st # files[n]
          /\ files' = [files EXCEPT ![n] = st]
    /\ UNCHANGED <<variant, cache, loadAttempts, loadReports, loadTimeFiles, pc,
                   submit_button, form, pipeline, model, preprocessor, input_data,
                   processed_data, prediction, prediction_proba, confidence_score,
                   calls, display, failures>>

\* The globals a loader's value is unpacked into: line 33 / line 40.
Unpack(value) ==
    IF variant = "A"
    THEN /\ pipeline' = value[1]
         /\ UNCHANGED <<model, preprocessor>>
    ELSE /\ model' = value[1]
         /\ preprocessor' = value[2]
         /\ UNCHANGED pipeline

\* Line 33 / 40, the cache holds a value: the loader's body does not run.
CachedLoad ==
    /\ pc = "load"
    /\ CacheHit(cache)
    /\ Unpack(cache.value)
    /\ pc' = "form"
    /\ UNCHANGED <<variant, files, cache, loadAttempts, loadReports, loadTimeFiles,
                   submit_button, form, input_data, processed_data, prediction,
                   prediction_proba, confidence_score, calls, display, failures>>

\* Line 33 / 40, the cache is empty: the loader's body runs, its value is
\* cached.  The call is outside any try: an exception leaving the loader
\* would end the run before the form.
FirstLoad ==
    /\ pc = "load"
    /\ ~CacheHit(cache)
    /\ loadAttempts < MaxLoads
    /\ LET r == IF variant = "A" THEN load_model_pipeline(files)
                                 ELSE load_model_and_preprocessor(files)
       IN  /\ loadAttempts' = loadAttempts + 1
           /\ loadTimeFiles' = files
           /\ loadReports' = IF r.report = "none" THEN loadReports ELSE loadReports + 1
           /\ IF r.raised
              THEN /\ pc' = "crashed"
                   /\ UNCHANGED <<cache, pipeline, model, preprocessor>>
              ELSE /\ pc' = "form"
                   /\ cache' = [filled |-> TRUE, value |-> r.value]
                   /\ Unpack(r.value)
    /\ UNCHANGED <<variant, files, submit_button, form, input_data, processed_data,
                   prediction, prediction_proba, confidence_score, calls, display,
                   failures>>

Guard ==
    IF variant = "A" THEN guard_app(submit_button, pipeline)
                     ELSE guard_myapp(submit_button, model, preprocessor)

\* Lines 36-53 / 43-105 render the form; line 56 / 108 is the guard.
RenderForm ==
    /\ pc = "form"
    /\ display' = Append(display, <<"form", "loan_eligibility_form">>)
    /\ pc' = IF Guard THEN "assemble" ELSE "done"
    /\ UNCHANGED <<variant, files, cache, loadAttempts, loadReports, loadTimeFiles,
                   submit_button, form, pipeline, model, preprocessor, input_data,
                   processed_data, prediction, prediction_proba, confidence_score,
                   calls, failures>>

process == <<variant, files, cache, loadAttempts, loadReports, loadTimeFiles,
             submit_button, form>>

\* Lines 58-67 / 111-120.
Assemble ==
    /\ pc = "assemble"
    /\ input_data' = InputData(form)
    /\ pc' = IF variant = "A" THEN "predict" ELSE "transform"
    /\ UNCHANGED <<process, globals, processed_data, prediction, prediction_proba,
                   confidence_score, calls, display, failures>>

\* myapp.py 123: processed_data = preprocessor.transform(input_data); the
\* call returns or raises.
Transform ==
    /\ pc = "transform"
    /\ calls' = Append(calls, <<"transform", input_data>>)
    /\ \/ /\ processed_data' = Transformed(input_data)
          /\ pc' = "predict"
       \/ /\ pc' = "except"
          /\ UNCHANGED processed_data
    /\ UNCHANGED <<process, globals, input_data, prediction, prediction_proba,
                   confidence_score, display, failures>>

InferenceInput ==
    IF variant = "A" THEN InferenceInputApp(input_data, processed_data)
                     ELSE InferenceInputMyapp(input_data, processed_data)

\* Line 70 / 126: prediction = ....predict(...)[0]; the call returns a label
\* or raises.
Predict ==
    /\ pc = "predict"
    /\ calls' = Append(calls, <<"predict", InferenceInput>>)
    /\ \/ \E label \in PredictReturns :
             /\ prediction' = <<label>>
             /\ pc' = "proba"
       \/ /\ pc' = "except"
          /\ UNCHANGED prediction
    /\ UNCHANGED <<process, globals, input_data, processed_data, prediction_proba,
                   confidence_score, display, failures>>

\* Line 71 / 129: prediction_proba = ....predict_proba(...)[0]; the call
\* returns a row or raises.
PredictProba ==
    /\ pc = "proba"
    /\ calls' = Append(calls, <<"predict_proba", InferenceInput>>)
    /\ \/ \E row \in ProbaReturns :
             /\ prediction_proba' = row
             /\ pc' = "confidence"
       \/ /\ pc' = "except"
          /\ UNCHANGED prediction_proba
    /\ UNCHANGED <<process, globals, input_data, processed_data, prediction,
                   confidence_score, display, failures>>

\* Line 72 / 130; the index raises IndexError on a row that is too short.
Confidence ==
    /\ pc = "confidence"
    /\ LET r == IF variant = "A"
                THEN ConfidenceScoreApp(prediction[1], prediction_proba)
                ELSE ConfidenceScoreMyapp(prediction[1], prediction_proba)
       IN  IF r.raised
           THEN /\ pc' = "except"
                /\ UNCHANGED confidence_score
           ELSE /\ pc' = "verdict"
                /\ confidence_score' = r.value
    /\ UNCHANGED <<process, globals, input_data, processed_data, prediction,
                   prediction_proba, calls, display, failures>>

\* Lines 74-77 and 81 / 133-136 and 140: st.success or st.error with the verdict.
ShowVerdict ==
    /\ pc = "verdict"
    /\ display' = Append(display,
                         <<"verdict", IF variant = "A" THEN verdict_app(prediction[1])
                                                        ELSE verdict_myapp(prediction[1])>>)
    /\ pc' = "write_confidence"
    /\ UNCHANGED <<process, globals, locals, failures>>

\* Line 78 or 82 / 137 or 141: the f-string raises on a value that has no
\* '.2%' format.
ShowConfidence ==
    /\ pc = "write_confidence"
    /\ IF IsFloat(confidence_score[1])
       THEN /\ display' = Append(display,
                                 <<"confidence", FormatPercent(confidence_score[1])>>)
            /\ pc' = "summary"
       ELSE /\ pc' = "except"
            /\ UNCHANGED display
    /\ UNCHANGED <<process, globals, locals, failures>>

\* Lines 86-93 / 145-152.
ShowSummary ==
    /\ pc = "summary"
    /\ display' = Append(display, <<"summary", SummaryValues(form)>>)
    /\ pc' = "done"
    /\ UNCHANGED <<process, globals, locals, failures>>

\* Faulty variant: the handler also empties the resource cache.
Except_clears_cache ==
    /\ pc = "except"
    /\ display' = Append(display, <<"error", "Error during prediction">>)
    /\ failures' = IF failures < MaxFailures THEN failures + 1 ELSE failures
    /\ pc' = "done"
    /\ cache' = EmptyCache
    /\ UNCHANGED <<variant, files, loadAttempts, loadReports, loadTimeFiles,
                   submit_button, form, globals, locals>>

\* Lines 95-97 / 154-156: except Exception, for the whole try block.
Except ==
    /\ pc = "except"
    /\ display' = Append(display, <<"error", "Error during prediction">>)
    /\ failures' = IF failures < MaxFailures THEN failures + 1 ELSE failures
    /\ pc' = "done"
    /\ UNCHANGED <<process, globals, locals>>

Next ==
    \/ OpenPage
    \/ SubmitForm
    \/ FilesChange
    \/ CachedLoad
    \/ FirstLoad
    \/ RenderForm
    \/ Assemble
    \/ Transform
    \/ Predict
    \/ PredictProba
    \/ Confidence
    \/ ShowVerdict
    \/ ShowConfidence
    \/ ShowSummary
    \/ Except

Spec == Init /\ [][Next]_vars

(***************************************************************************)
(* Properties.                                                             *)
(***************************************************************************)
InTry == pc \in {"assemble", "transform", "predict", "proba", "confidence",
                 "verdict", "write_confidence", "summary", "except"}

\* The run has passed line 33 / 40.
PastLoad == pc \in {"form", "done"} \/ InTry

\* The loader's body ran and a file it needed was missing or corrupt.
LoadFailed ==
    /\ loadAttempts > 0
    /\ \E n \in FileNames(variant) : loadTimeFiles[n] # "ok"

Absent(value) == \A i \in 1..Len(value) : value[i] = None

LoadedGlobals == IF variant = "A" THEN <<pipeline>> ELSE <<model, preprocessor>>

Positions(kind) == {i \in 1..Len(display) : display[i][1] = kind}

ShownValue(kind) == display[CHOOSE i \in Positions(kind) : TRUE][2]

\* C1: when the artifact file(s) were missing or corrupt at load time, the
\* loader has returned (the run did not end in the loader) and every value it
\* returned is None, every run that has passed the form's lines has the form
\* on the page, and no run shows a verdict or a confidence or enters the
\* prediction logic.
C1_FailedLoadNoVerdict ==
    LoadFailed =>
        /\ pc # "crashed"
        /\ cache.filled /\ Absent(cache.value)
        /\ PastLoad => Absent(LoadedGlobals)
        /\ (pc = "done" \/ InTry) => Shown("form")
        /\ ~Shown("verdict") /\ ~Shown("confidence")
        /\ ~InTry

C1_Witness ==
    /\ LoadFailed
    /\ pc = "done"
    /\ submit_button
    /\ form # FormDefaults
    /\ \A n \in FileNames(variant) : files[n] = "ok"

\* C2 (as claimed): no run shows both a verdict and the "Error during
\* prediction" message; the except handler is entered before any verdict.
C2_NoVerdictWithError == ~(Shown("verdict") /\ Shown("error"))

\* C3: for a predicted label L in {0, 1} and a two-element row p, the
\* confidence score is p[L] (0-based), in both variants.
C3_ConfidenceIsProbabilityOfLabel ==
    (confidence_score # <<>> /\ prediction[1] \in {0, 1} /\ Len(prediction_proba) = 2)
        => confidence_score[1] = prediction_proba[prediction[1] + 1]

C3_Witness ==
    /\ Shown("confidence")
    /\ prediction = <<1>>
    /\ prediction_proba = <<Float(80000), Float(20000)>>
    /\ confidence_score = <<Float(20000)>>

\* C4: in variant A a finished run whose predict returned a label and whose
\* predict_proba returned two probabilities shows exactly one verdict,
\* "eligible" for label 1 and "high credit risk" for any other label, and
\* exactly one confidence: the probability of line 72 as a percentage with
\* two decimal digits, off by at most half a hundredth of a percent; label 1
\* with [0.2, 0.8] shows "eligible" and 80.00%.
C4_VerdictAndConfidenceApp ==
    (/\ variant = "A"
     /\ pc = "done"
     /\ prediction # <<>>
     /\ Len(prediction_proba) = 2
     /\ IsFloat(prediction_proba[1]) /\ IsFloat(prediction_proba[2]))
        => /\ Cardinality(Positions("verdict")) = 1
           /\ Cardinality(Positions("confidence")) = 1
           /\ ~Shown("error")
           /\ (prediction[1] = 1) => ShownValue("verdict") = "eligible"
           /\ (prediction[1] # 1) => ShownValue("verdict") = "high credit risk"
           /\ LET c == ShownValue("confidence")
                  p == prediction_proba[IF prediction[1] = 1 THEN 2 ELSE 1][2]
                  d == (c[1] * 100 + c[2] * 10 + c[3]) * 10 - p
              IN  /\ c[1] \in 0..100 /\ c[2] \in 0..9 /\ c[3] \in 0..9
                  /\ -5 <= d /\ d <= 5
           /\ (prediction = <<1>> /\ prediction_proba = <<Float(20000), Float(80000)>>)
                 => ShownValue("confidence") = <<80, 0, 0>>

C4_Witness ==
    /\ variant = "A"
    /\ pc = "done"
    /\ form = [FormDefaults EXCEPT !.loan_term = 36]
    /\ prediction = <<1>>
    /\ prediction_proba = <<Float(20000), Float(80000)>>
    /\ Shown("verdict")
    /\ Shown("confidence")

ColumnNames(frame) == [i \in 1..Len(frame) |-> frame[i][1]]

ColumnValues(frame) == [i \in 1..Len(frame) |-> frame[i][2]]

\* C5: when the run is at the assembler, and in every row it has assembled,
\* all eight fields are there and inside their domains; no row holds Age 101
\* or CreditScore 299.
C5_RecordInDomain ==
    /\ (pc = "assemble" \/ input_data # <<>>) =>
          /\ DOMAIN form = Fields
          /\ form.age \in 18..100
          /\ form.stated_monthly_income \in 0..100000
          /\ form.loan_amount \in 1000..50000
          /\ form.credit_score \in 300..850
          /\ form.delinquencies \in 0..20
          /\ form.loan_term \in {12, 36, 60}
          /\ form.employment_status \in {"Employed", "Self-employed", "Unemployed"}
          /\ form.loan_purpose \in {"Debt Consolidation", "Home Improvement",
                                    "Business", "Education", "Other"}
    /\ input_data # <<>> =>
          /\ Len(input_data) = 8
          /\ input_data[1][2] \in 18..100
          /\ input_data[2][2] \in 0..100000
          /\ input_data[3][2] \in 1000..50000
          /\ input_data[5][2] \in 300..850
          /\ input_data[8][2] \in 0..20
          /\ input_data[1][2] # 101
          /\ input_data[5][2] # 299

\* A row assembled after the user tried the values below the ranges on a form
\* that held the upper ends: the typed numbers were not taken, the slider
\* stopped at 300.
C5_Witness ==
    /\ input_data # <<>>
    /\ form.age = 100
    /\ form.credit_score = 300
    /\ form.loan_purpose = "Business"
    /\ form.employment_status = "Unemployed"

\* C6: the assembled frame is one row of the eight columns Age,
\* StatedMonthlyIncome, LoanAmount, EmploymentStatus, CreditScore, LoanTerm,
\* LoanPurpose, Delinquencies, in that order, each holding the submitted
\* value; the first artifact call of the run is made on that frame, and in
\* variant A every artifact call is.
C6_FramePassedUnchanged ==
    input_data # <<>> =>
        /\ ColumnNames(input_data) =
              <<"Age", "StatedMonthlyIncome", "LoanAmount", "EmploymentStatus",
                "CreditScore", "LoanTerm", "LoanPurpose", "Delinquencies">>
        /\ ColumnValues(input_data) =
              <<form.age, form.stated_monthly_income, form.loan_amount,
                form.employment_status, form.credit_score, form.loan_term,
                form.loan_purpose, form.delinquencies>>
        /\ calls # <<>> => calls[1][2] = input_data
        /\ variant = "A" => \A i \in 1..Len(calls) : calls[i][2] = input_data

C6_Witness ==
    /\ Shown("verdict")
    /\ Len(calls) >= 2
    /\ ColumnValues(input_data) =
          <<18, 5000, 50000, "Employed", 300, 12, "Debt Consolidation", 20>>

InferenceWorked ==
    /\ prediction # <<>>
    /\ Len(prediction_proba) = 2
    /\ IsFloat(prediction_proba[1]) /\ IsFloat(prediction_proba[2])

\* C8: the except handler leaves the cache, the loaded globals and the files
\* as they are; a run starts with no local and nothing on the page left from
\* an earlier run; and, however many submissions have failed before, a
\* submission with the artifacts loaded whose calls return ends with a
\* verdict and a confidence and without the error message.
C8_FailureLeavesArtifact ==
    /\ [][pc = "except" =>
            /\ cache' = cache
            /\ LoadedGlobals' = LoadedGlobals
            /\ files' = files
            /\ loadAttempts' = loadAttempts]_vars
    /\ [](pc = "load" =>
            /\ display = <<>>
            /\ calls = <<>>
            /\ input_data = <<>> /\ processed_data = <<>>
            /\ prediction = <<>> /\ prediction_proba = <<>>
            /\ confidence_score = <<>>)
    /\ []((pc = "done" /\ submit_button /\ InferenceWorked) =>
            /\ Shown("verdict")
            /\ Shown("confidence")
            /\ ~Shown("error")
            /\ ~Absent(LoadedGlobals))

C8_Witness ==
    /\ failures >= 2
    /\ pc = "done"
    /\ submit_button
    /\ InferenceWorked
    /\ Shown("verdict")
    /\ ~Shown("error")

\* C9: for a label in {0, 1} the verdict a variant shows is not the one the
\* other variant's lines give for that label - label 1 is "eligible" in A and
\* "high credit risk" in B, label 0 the reverse - and the confidence score
\* a variant has computed is the one the other variant's line gives for the
\* same label and row.
C9_OppositeVerdictsSameConfidence ==
    (Shown("verdict") /\ prediction[1] \in {0, 1}) =>
        LET l == prediction[1]
            v == ShownValue("verdict")
        IN  /\ variant = "A" =>
                  /\ v = (IF l = 1 THEN "eligible" ELSE "high credit risk")
                  /\ v # verdict_myapp(l)
                  /\ confidence_score = ConfidenceScoreMyapp(l, prediction_proba).value
            /\ variant = "B" =>
                  /\ v = (IF l = 1 THEN "high credit risk" ELSE "eligible")
                  /\ v # verdict_app(l)
                  /\ confidence_score = ConfidenceScoreApp(l, prediction_proba).value

C9_Witness ==
    /\ variant = "B"
    /\ prediction = <<1>>
    /\ prediction_proba = <<Float(20000), Float(80000)>>
    /\ Shown("verdict")
    /\ ShownValue("verdict") = "high credit risk"
    /\ Shown("confidence")

\* C10: in variant B the loader's two values are both None or both objects -
\* both None when the model file loaded and the preprocessor file did not -
\* and so are the two globals of every run; predict and predict_proba are
\* called on what transform returned for the assembled frame, after the
\* transform call, and never on the frame.
C10_AllOrNothingAndTransformFirst ==
    variant = "B" =>
        /\ cache.filled => ((cache.value[1] = None) <=> (cache.value[2] = None))
        /\ (model = None) <=> (preprocessor = None)
        /\ (cache.filled /\ loadTimeFiles[PreprocessorFile] # "ok") =>
              cache.value = <<None, None>>
        /\ \A i \in 1..Len(calls) :
              IF i = 1
              THEN calls[i] = <<"transform", input_data>>
              ELSE /\ calls[i][1] \in {"predict", "predict_proba"}
                   /\ calls[i][2] = Transformed(input_data)
                   /\ calls[i][2] # input_data
                   /\ calls[i][2] = processed_data

C10_Witness ==
    /\ variant = "B"
    /\ pc = "done"
    /\ submit_button
    /\ loadTimeFiles[ModelFile] = "ok"
    /\ loadTimeFiles[PreprocessorFile] = "corrupt"
    /\ model = None
    /\ preprocessor = None

====
